---------------------------- MODULE Spec2Model ----------------------------
(***************************************************************************)
(* Vehicle spawn-code setter: a model of build.mjs and of its extended     *)
(* variant (the variant with carcols.meta / modification-kit support).     *)
(*                                                                         *)
(* Strings are sequences of characters (<<"a","b","1">> is "ab1"), so that *)
(* concatenation, the decimal rendering of a counter, the stripping of the *)
(* '#' marker and substring replacement are computed, not assumed.  The    *)
(* four file-name suffixes are sequences over the tokens ".yft", ".ytd",   *)
(* "_hi" and "+hi": "_hi.yft" is <<"_hi",".yft">>.                         *)
(*                                                                         *)
(* A JavaScript object (counters, spawnCodes) is a sequence of             *)
(* [key, val] records in insertion order, which is the order               *)
(* Object.entries yields for keys that are not integer-like.  Identifiers  *)
(* and base keys range over ordinary asset names: integer-like keys and    *)
(* names of inherited Object.prototype members are outside the model.      *)
(***************************************************************************)
EXTENDS Integers, Sequences, FiniteSets, TLC

VARIABLES
    pc,             \* position of main()
    run,            \* number of the current invocation of the program
    updateChoice,   \* answer to the first prompt
    selectedPrefix, \* answer to the modkit prefix prompt
    buildData,      \* build.yaml: [ok, data, vehicles]; ok is false when it cannot be loaded
    metaDisk,       \* ./build/meta: [exists, files], the files in traversal order
    metaData,       \* result of findMetaFiles: [vehicles, carvariations, carcols]
    counters,       \* autoIncrementSpawnCodes: counters
    spawnCodes,     \* autoIncrementSpawnCodes: spawnCodes, then main's spawnCodes
    gi,             \* autoIncrementSpawnCodes: index of the entry visited next
    stream,         \* ./build/stream: file name -> file (identified by its first name)
    ri,             \* renameVehicleFiles: index of the spawnCodes entry visited next
    rj,             \* renameVehicleFiles: index of the pattern visited next
    mi,             \* updateMetaFiles / fixModkits: index of the document visited next
    ulcFile,        \* ./build/ulc.lua: [exists, text]
    ulcContent,     \* updateUlcFile: ulcContent
    ui,             \* updateUlcFile: index of the spawnCodes entry applied next
    log,            \* console output that the claims read (renames, warnings, errors)
    calls           \* components invoked by main() in this run, in order

vars == <<pc, run, updateChoice, selectedPrefix, buildData, metaDisk, metaData,
          counters, spawnCodes, gi, stream, ri, rj, mi, ulcFile, ulcContent, ui,
          log, calls>>

---------------------------------------------------------------------------
(* Bounds of the model.                                                    *)

MaxVehicles == 4        \* SpecGen: entries of a manifest
MaxLongVehicles == 12   \* SpecGenLong: entries of a manifest
MaxRenameVehicles == 2  \* SpecRename: entries of a manifest
MaxRuns == 2            \* invocations of the program on the same files

---------------------------------------------------------------------------
(* Strings.                                                                *)

Digit == <<"0", "1", "2", "3", "4", "5", "6", "7", "8", "9">>

\* String(n) for a non-negative integer n: its decimal digits.
RECURSIVE ToStr(_)
ToStr(n) == IF n < 10 THEN <<Digit[n + 1]>>
            ELSE ToStr(n \div 10) \o <<Digit[(n % 10) + 1]>>

\* code.replace(/#$/, ""): one trailing '#' is removed.
StripMarker(code) ==
    IF Len(code) > 0 /\ code[Len(code)] = "#"
    THEN SubSeq(code, 1, Len(code) - 1)
    ELSE code

---------------------------------------------------------------------------
(* JavaScript objects as insertion-ordered sequences of [key, val].        *)

Keys(obj) == {obj[i].key : i \in 1..Len(obj)}

HasKey(obj, k) == k \in Keys(obj)

\* obj[k] for a key that is present.
Get(obj, k) == obj[CHOOSE i \in 1..Len(obj) : obj[i].key = k].val

\* obj[k] = v: an existing key keeps its place, a new key is appended.
Put(obj, k, v) ==
    IF HasKey(obj, k)
    THEN [i \in 1..Len(obj) |-> IF obj[i].key = k THEN [key |-> k, val |-> v] ELSE obj[i]]
    ELSE Append(obj, [key |-> k, val |-> v])

---------------------------------------------------------------------------
(* autoIncrementSpawnCodes.                                                *)

CounterInitZero(c, base) ==
    IF ~HasKey(c, base) \/ Get(c, base) = 0 THEN Put(c, base, 0) ELSE c

\* if (!counters[base]) counters[base] = 1;
CounterInit(c, base) ==
    IF ~HasKey(c, base) \/ Get(c, base) = 0 THEN Put(c, base, 1) ELSE c

\* One iteration of the for loop: [counters, spawnCodes] after the entry e.
GenEntry(c, s, e) ==
    LET base == StripMarker(e.code)
        c1 == CounterInit(c, base)
    IN  [counters |-> Put(c1, base, Get(c1, base) + 1),
         spawnCodes |-> Put(s, e.vehicle, base \o ToStr(Get(c1, base)))]

RECURSIVE GenFrom(_, _, _, _)
GenFrom(c, s, entries, i) ==
    IF i > Len(entries) THEN s
    ELSE LET r == GenEntry(c, s, entries[i])
         IN  GenFrom(r.counters, r.spawnCodes, entries, i + 1)

\* The whole function: the mapping it returns for Object.entries(vehicleEntries).
AutoIncrementSpawnCodes(entries) == GenFrom(<<>>, <<>>, entries, 1)

vehicleEntries == buildData.vehicles

vehicleData == buildData.data

GenStep ==
    /\ pc = "gen"
    /\ gi <= Len(vehicleEntries)
    /\ LET r == GenEntry(counters, spawnCodes, vehicleEntries[gi])
       IN  /\ counters' = r.counters
           /\ spawnCodes' = r.spawnCodes
    /\ gi' = gi + 1
    /\ UNCHANGED <<pc, run, updateChoice, selectedPrefix, buildData, metaDisk,
                   metaData, stream, ri, rj, mi, ulcFile, ulcContent, ui, log, calls>>

GenReturn ==
    /\ pc = "gen"
    /\ gi > Len(vehicleEntries)
    /\ pc' = "switch"
    /\ UNCHANGED <<run, updateChoice, selectedPrefix, buildData, metaDisk, metaData,
                   counters, spawnCodes, gi, stream, ri, rj, mi, ulcFile, ulcContent,
                   ui, log, calls>>

---------------------------------------------------------------------------
(* main(): the prompt, the manifest, findMetaFiles.                        *)

Everything == "Update everything"
SpawnOnly == "Update only spawn codes"
MetaOnly == "Update only meta files"
UlcOnly == "Update only ULC"
ModkitsOnly == "Update only modkits"

Choices == {Everything, SpawnOnly, MetaOnly, UlcOnly, ModkitsOnly}

PrefixChoices == {<<Digit[d + 1]>> : d \in 1..9}

Note(msg, a, b) == [msg |-> msg, a |-> a, b |-> b]

None == <<>>

\* inquirer.prompt for updateChoice.
Prompt(choice) ==
    /\ pc = "prompt"
    /\ updateChoice' = choice
    /\ pc' = "load"
    /\ UNCHANGED <<run, selectedPrefix, buildData, metaDisk, metaData, counters,
                   spawnCodes, gi, stream, ri, rj, mi, ulcFile, ulcContent, ui, log,
                   calls>>

\* loadYaml succeeds.
LoadYaml ==
    /\ pc = "load"
    /\ buildData.ok
    /\ pc' = "find"
    /\ UNCHANGED <<run, updateChoice, selectedPrefix, buildData, metaDisk, metaData,
                   counters, spawnCodes, gi, stream, ri, rj, mi, ulcFile, ulcContent,
                   ui, log, calls>>

\* loadYaml fails: process.exit(1).
LoadYamlFail ==
    /\ pc = "load"
    /\ ~buildData.ok
    /\ pc' = "exit1"
    /\ log' = Append(log, Note("Failed to load YAML", None, None))
    /\ UNCHANGED <<run, updateChoice, selectedPrefix, buildData, metaDisk, metaData,
                   counters, spawnCodes, gi, stream, ri, rj, mi, ulcFile, ulcContent,
                   ui, calls>>

\* A file of the meta folder is [name, content]; a content is
\* [state, root, items]: state "unreadable" (readFileSync throws), "badxml"
\* (xml2js rejects it) or "ok" (it parses to a document with that root element
\* and those items).  A parsed document has state "ok", and null is NullDoc.
NullDoc == [state |-> "null", root |-> "", items |-> <<>>]

\* parseXmlFile on a readable file: the parsed document, or null on a parse error.
ParseXmlFile(content) == IF content.state = "badxml" THEN NullDoc ELSE content

MetaNames == {"vehicles.meta", "carvariations.meta", "carcols.meta"}

\* The {path, contents} records findMetaFiles collects for one file name.
Found(name) ==
    LET files == metaDisk.files
        RECURSIVE Collect(_)
        Collect(i) ==
            IF i > Len(files) THEN <<>>
            ELSE (IF files[i].name = name
                  THEN <<[path |-> i, contents |-> ParseXmlFile(files[i].content)]>>
                  ELSE <<>>) \o Collect(i + 1)
    IN  Collect(1)

\* The console.error lines of parseXmlFile, one per file that does not parse.
ParseErrors ==
    LET files == metaDisk.files
        RECURSIVE Errors(_)
        Errors(i) ==
            IF i > Len(files) THEN <<>>
            ELSE (IF files[i].name \in MetaNames /\ files[i].content.state = "badxml"
                  THEN <<Note("Error parsing XML", None, None)>>
                  ELSE <<>>) \o Errors(i + 1)
    IN  Errors(1)

\* readdirSync or readFileSync throws inside findMetaFiles.
FindThrows ==
    IF metaDisk.exists
    THEN \E i \in 1..Len(metaDisk.files) :
            /\ metaDisk.files[i].name \in MetaNames
            /\ metaDisk.files[i].content.state = "unreadable"
    ELSE TRUE

\* findMetaFiles returns, and main goes on to autoIncrementSpawnCodes.
FindMetaFiles ==
    /\ pc = "find"
    /\ ~FindThrows
    /\ metaData' = [vehicles |-> Found("vehicles.meta"),
                    carvariations |-> Found("carvariations.meta"),
                    carcols |-> Found("carcols.meta")]
    /\ pc' = "gen"
    /\ counters' = <<>>
    /\ spawnCodes' = <<>>
    /\ gi' = 1
    /\ calls' = Append(calls, "autoIncrementSpawnCodes")
    /\ log' = log \o ParseErrors
    /\ UNCHANGED <<run, updateChoice, selectedPrefix, buildData, metaDisk, stream,
                   ri, rj, mi, ulcFile, ulcContent, ui>>

\* findMetaFiles throws: main().catch logs the error.
FindMetaFilesThrow ==
    /\ pc = "find"
    /\ FindThrows
    /\ pc' = "crashed"
    /\ log' = Append(log, Note("Error: findMetaFiles", None, None))
    /\ UNCHANGED <<run, updateChoice, selectedPrefix, buildData, metaDisk, metaData,
                   counters, spawnCodes, gi, stream, ri, rj, mi, ulcFile, ulcContent,
                   ui, calls>>

---------------------------------------------------------------------------
(* main(): the switch on updateChoice, and what follows each component.    *)

CaseOfUlcFirst(choice) ==
    CASE choice = Everything -> <<"renameVehicleFiles", "updateUlcFile",
                                  "updateMetaFiles", "fixModkits">>
      [] choice = SpawnOnly -> <<"renameVehicleFiles">>
      [] choice = MetaOnly -> <<"updateMetaFiles">>
      [] choice = UlcOnly -> <<"updateUlcFile">>
      [] choice = ModkitsOnly -> <<"fixModkits">>

\* The components a choice invokes after autoIncrementSpawnCodes, as the
\* switch statement lists them.
CaseOf(choice) ==
    CASE choice = Everything -> <<"renameVehicleFiles", "updateMetaFiles",
                                  "updateUlcFile", "fixModkits">>
      [] choice = SpawnOnly -> <<"renameVehicleFiles">>
      [] choice = MetaOnly -> <<"updateMetaFiles">>
      [] choice = UlcOnly -> <<"updateUlcFile">>
      [] choice = ModkitsOnly -> <<"fixModkits">>

PcOf(component) ==
    CASE component = "renameVehicleFiles" -> "rename"
      [] component = "updateMetaFiles" -> "metaVehicles"
      [] component = "updateUlcFile" -> "ulc"
      [] component = "fixModkits" -> "modkits"

\* Position of the component in its case, or 0.
PlaceIn(choice, component) ==
    LET S == {i \in 1..Len(CaseOf(choice)) : CaseOf(choice)[i] = component}
    IN  IF S = {} THEN 0 ELSE CHOOSE i \in S : TRUE

\* Where main continues when a component returns.
After(component) ==
    LET i == PlaceIn(updateChoice, component)
    IN  IF i < Len(CaseOf(updateChoice))
        THEN PcOf(CaseOf(updateChoice)[i + 1])
        ELSE "complete"

CallsAfter(component) ==
    LET i == PlaceIn(updateChoice, component)
    IN  IF i < Len(CaseOf(updateChoice))
        THEN Append(calls, CaseOf(updateChoice)[i + 1])
        ELSE calls

\* The switch: the cases that ask for a modkit prefix first.
SwitchWithPrefix(p) ==
    /\ pc = "switch"
    /\ updateChoice \in {Everything, ModkitsOnly}
    /\ selectedPrefix' = p
    /\ pc' = PcOf(CaseOf(updateChoice)[1])
    /\ calls' = Append(calls, CaseOf(updateChoice)[1])
    /\ ri' = 1 /\ rj' = 1 /\ mi' = 1
    /\ UNCHANGED <<run, updateChoice, buildData, metaDisk, metaData, counters,
                   spawnCodes, gi, stream, ulcFile, ulcContent, ui, log>>

\* The switch: the other cases.
Switch ==
    /\ pc = "switch"
    /\ updateChoice \in {SpawnOnly, MetaOnly, UlcOnly}
    /\ pc' = PcOf(CaseOf(updateChoice)[1])
    /\ calls' = Append(calls, CaseOf(updateChoice)[1])
    /\ ri' = 1 /\ rj' = 1 /\ mi' = 1
    /\ UNCHANGED <<run, updateChoice, selectedPrefix, buildData, metaDisk, metaData,
                   counters, spawnCodes, gi, stream, ulcFile, ulcContent, ui, log>>

\* console.log("Processing completed successfully.")
Complete ==
    /\ pc = "complete"
    /\ pc' = "done"
    /\ log' = Append(log, Note("Processing completed successfully.", None, None))
    /\ UNCHANGED <<run, updateChoice, selectedPrefix, buildData, metaDisk, metaData,
                   counters, spawnCodes, gi, stream, ri, rj, mi, ulcFile, ulcContent,
                   ui, calls>>

NoMeta == [vehicles |-> <<>>, carvariations |-> <<>>, carcols |-> <<>>]

\* The program is started again on the files the previous run left.
Rerun ==
    /\ pc \in {"done", "crashed", "exit1"}
    /\ run < MaxRuns
    /\ run' = run + 1
    /\ pc' = "prompt"
    /\ updateChoice' = "" /\ selectedPrefix' = None
    /\ metaData' = NoMeta /\ counters' = <<>> /\ spawnCodes' = <<>>
    /\ gi' = 1 /\ ri' = 1 /\ rj' = 1 /\ mi' = 1 /\ ui' = 1
    /\ ulcContent' = None /\ log' = <<>> /\ calls' = <<>>
    /\ UNCHANGED <<buildData, metaDisk, stream, ulcFile>>

---------------------------------------------------------------------------
(* renameVehicleFiles.                                                     *)

Patterns == << <<".yft">>, <<".ytd">>, <<"_hi", ".yft">>, <<"+hi", ".ytd">> >>

NumPatterns == Len(Patterns)

RenameAlways(dir, old, new) ==
    [f \in (DOMAIN dir \ {old}) \cup {new} |->
        IF f = new THEN (IF old \in DOMAIN dir THEN dir[old] ELSE new) ELSE dir[f]]

\* if (fs.existsSync(old)) fs.renameSync(old, new): the file takes the new
\* name, and a file that had that name is replaced.
RenameOne(dir, old, new) ==
    IF old \in DOMAIN dir
    THEN [f \in (DOMAIN dir \ {old}) \cup {new} |-> IF f = new THEN dir[old] ELSE dir[f]]
    ELSE dir

\* One (vehicle, pattern) pair of the two nested loops.
RenameStep ==
    /\ pc = "rename"
    /\ ri <= Len(spawnCodes)
    /\ LET old == spawnCodes[ri].key \o Patterns[rj]
           new == spawnCodes[ri].val \o Patterns[rj]
       IN  /\ stream' = RenameOne(stream, old, new)
           /\ log' = Append(log, IF old \in DOMAIN stream
                                 THEN Note("Renamed", old, new)
                                 ELSE Note("File not found", old, None))
    /\ IF rj < NumPatterns
       THEN rj' = rj + 1 /\ ri' = ri
       ELSE rj' = 1 /\ ri' = ri + 1
    /\ UNCHANGED <<pc, run, updateChoice, selectedPrefix, buildData, metaDisk,
                   metaData, counters, spawnCodes, gi, mi, ulcFile, ulcContent, ui,
                   calls>>

RenameReturn ==
    /\ pc = "rename"
    /\ ri > Len(spawnCodes)
    /\ pc' = After("renameVehicleFiles")
    /\ calls' = CallsAfter("renameVehicleFiles")
    /\ mi' = 1
    /\ UNCHANGED <<run, updateChoice, selectedPrefix, buildData, metaDisk, metaData,
                   counters, spawnCodes, gi, stream, ri, rj, ulcFile, ulcContent, ui,
                   log>>

---------------------------------------------------------------------------
(* updateMetaFiles.                                                        *)

VehiclesRoot == "CVehicleModelInfo__InitDataList"
CarvarRoot == "CVehicleModelInfoVariation"
CarcolsRoot == "CVehicleModelInfoVarGlobal"

\* A field the parsed item does not have.
Absent == <<"undefined">>

Lower(ch) == CASE ch = "A" -> "a" [] ch = "B" -> "b" [] ch = "C" -> "c" [] OTHER -> ch

ToLowerCaseIdentity(str) == str

\* String.prototype.toLowerCase
ToLowerCase(str) == [i \in 1..Len(str) |-> Lower(str[i])]

\* buildData[originalModelName].data
DataRef(entries, k) == entries[CHOOSE i \in 1..Len(entries) : entries[i].vehicle = k].data

\* The callback of the vehicles.meta forEach, for an item that has a modelName.
UpdateVehicleItem(item, sc, vd, entries) ==
    LET originalModelName == ToLowerCase(item.modelName)
    IN  IF HasKey(sc, originalModelName)
        THEN LET dataRef == DataRef(entries, originalModelName)
             IN  [item EXCEPT !.modelName = Get(sc, originalModelName),
                              !.txdName = Get(sc, originalModelName),
                              !.gameName = Get(sc, originalModelName),
                              !.handlingId = vd[dataRef].handling,
                              !.audioNameHash = vd[dataRef].audio]
        ELSE item

\* The callback of the carvariations.meta forEach.
UpdateCarvarItem(item, sc) ==
    LET originalModelName == ToLowerCase(item.modelName)
    IN  IF HasKey(sc, originalModelName)
        THEN [item EXCEPT !.modelName = Get(sc, originalModelName)]
        ELSE item

\* Index of the first item whose modelName is missing (item.modelName[0]
\* throws a TypeError there), or Len(items) + 1.
FirstBad(items) ==
    LET B == {i \in 1..Len(items) : items[i].modelName = Absent}
    IN  IF B = {} THEN Len(items) + 1 ELSE CHOOSE i \in B : \A j \in B : i <= j

\* The document cannot be walked: it is null, or lacks the expected root, or
\* holds an item without modelName.
MetaThrows(doc, root) ==
    \/ doc.state = "null"
    \/ doc.root # root
    \/ FirstBad(doc.items) <= Len(doc.items)

\* The in-memory vehicles document after the forEach (which stops where it throws).
WalkVehicles(doc) ==
    IF doc.state = "null" \/ doc.root # VehiclesRoot THEN doc
    ELSE [doc EXCEPT !.items =
            [i \in 1..Len(doc.items) |->
                IF i < FirstBad(doc.items)
                THEN UpdateVehicleItem(doc.items[i], spawnCodes, vehicleData, vehicleEntries)
                ELSE doc.items[i]]]

WalkCarvar(doc) ==
    IF doc.state = "null" \/ doc.root # CarvarRoot THEN doc
    ELSE [doc EXCEPT !.items =
            [i \in 1..Len(doc.items) |->
                IF i < FirstBad(doc.items)
                THEN UpdateCarvarItem(doc.items[i], spawnCodes)
                ELSE doc.items[i]]]

\* fs.writeFileSync(path, convertToCRLF(unparseXmlFile(doc))): the file then
\* holds the document (kept here in its parsed form).
WriteMeta(disk, path, doc) == [disk EXCEPT !.files[path].content = doc]

\* One vehicles.meta document: walked, then written back.
MetaVehiclesDoc ==
    /\ pc = "metaVehicles"
    /\ mi <= Len(metaData.vehicles)
    /\ ~MetaThrows(metaData.vehicles[mi].contents, VehiclesRoot)
    /\ LET doc == WalkVehicles(metaData.vehicles[mi].contents)
       IN  /\ metaData' = [metaData EXCEPT !.vehicles[mi].contents = doc]
           /\ metaDisk' = WriteMeta(metaDisk, metaData.vehicles[mi].path, doc)
    /\ mi' = mi + 1
    /\ UNCHANGED <<pc, run, updateChoice, selectedPrefix, buildData, counters,
                   spawnCodes, gi, stream, ri, rj, ulcFile, ulcContent, ui, log, calls>>

\* One vehicles.meta document whose walk throws: the TypeError leaves
\* updateMetaFiles and main, and main().catch logs it.
MetaVehiclesThrow ==
    /\ pc = "metaVehicles"
    /\ mi <= Len(metaData.vehicles)
    /\ MetaThrows(metaData.vehicles[mi].contents, VehiclesRoot)
    /\ metaData' = [metaData EXCEPT
                      !.vehicles[mi].contents = WalkVehicles(metaData.vehicles[mi].contents)]
    /\ pc' = "crashed"
    /\ log' = Append(log, Note("Error: TypeError", None, None))
    /\ UNCHANGED <<run, updateChoice, selectedPrefix, buildData, metaDisk, counters,
                   spawnCodes, gi, stream, ri, rj, mi, ulcFile, ulcContent, ui, calls>>

\* The first forEach is over: the second one starts.
MetaVehiclesEnd ==
    /\ pc = "metaVehicles"
    /\ mi > Len(metaData.vehicles)
    /\ pc' = "metaCarvar"
    /\ mi' = 1
    /\ UNCHANGED <<run, updateChoice, selectedPrefix, buildData, metaDisk, metaData,
                   counters, spawnCodes, gi, stream, ri, rj, ulcFile, ulcContent, ui,
                   log, calls>>

\* One carvariations.meta document: walked, then written back.
MetaCarvarDoc ==
    /\ pc = "metaCarvar"
    /\ mi <= Len(metaData.carvariations)
    /\ ~MetaThrows(metaData.carvariations[mi].contents, CarvarRoot)
    /\ LET doc == WalkCarvar(metaData.carvariations[mi].contents)
       IN  /\ metaData' = [metaData EXCEPT !.carvariations[mi].contents = doc]
           /\ metaDisk' = WriteMeta(metaDisk, metaData.carvariations[mi].path, doc)
    /\ mi' = mi + 1
    /\ UNCHANGED <<pc, run, updateChoice, selectedPrefix, buildData, counters,
                   spawnCodes, gi, stream, ri, rj, ulcFile, ulcContent, ui, log, calls>>

MetaCarvarThrow ==
    /\ pc = "metaCarvar"
    /\ mi <= Len(metaData.carvariations)
    /\ MetaThrows(metaData.carvariations[mi].contents, CarvarRoot)
    /\ metaData' = [metaData EXCEPT
                      !.carvariations[mi].contents =
                          WalkCarvar(metaData.carvariations[mi].contents)]
    /\ pc' = "crashed"
    /\ log' = Append(log, Note("Error: TypeError", None, None))
    /\ UNCHANGED <<run, updateChoice, selectedPrefix, buildData, metaDisk, counters,
                   spawnCodes, gi, stream, ri, rj, mi, ulcFile, ulcContent, ui, calls>>

MetaReturn ==
    /\ pc = "metaCarvar"
    /\ mi > Len(metaData.carvariations)
    /\ pc' = After("updateMetaFiles")
    /\ calls' = CallsAfter("updateMetaFiles")
    /\ mi' = 1
    /\ UNCHANGED <<run, updateChoice, selectedPrefix, buildData, metaDisk, metaData,
                   counters, spawnCodes, gi, stream, ri, rj, ulcFile, ulcContent, ui,
                   log>>

---------------------------------------------------------------------------
(* updateUlcFile.                                                          *)

Quote == "\""

\* String.prototype.replaceAll(pat, rep) for a non-empty string pattern and a
\* replacement without '$': the matches are taken left to right, without overlap.
RECURSIVE ReplaceAllFrom(_, _, _, _)
ReplaceAllFrom(text, pat, rep, i) ==
    IF i + Len(pat) - 1 > Len(text) THEN SubSeq(text, i, Len(text))
    ELSE IF SubSeq(text, i, i + Len(pat) - 1) = pat
         THEN rep \o ReplaceAllFrom(text, pat, rep, i + Len(pat))
         ELSE <<text[i]>> \o ReplaceAllFrom(text, pat, rep, i + 1)

ReplaceAll(text, pat, rep) == ReplaceAllFrom(text, pat, rep, 1)

Quoted(str) == <<Quote>> \o str \o <<Quote>>

\* The file does not exist: a warning, and the function returns.
UlcMissing ==
    /\ pc = "ulc"
    /\ ~ulcFile.exists
    /\ log' = Append(log, Note("ULC file not found", None, None))
    /\ pc' = After("updateUlcFile")
    /\ calls' = CallsAfter("updateUlcFile")
    /\ mi' = 1
    /\ UNCHANGED <<run, updateChoice, selectedPrefix, buildData, metaDisk, metaData,
                   counters, spawnCodes, gi, stream, ri, rj, ulcFile, ulcContent, ui>>

\* fs.readFileSync(ulcFilePath)
UlcRead ==
    /\ pc = "ulc"
    /\ ulcFile.exists
    /\ ulcContent' = ulcFile.text
    /\ ui' = 1
    /\ pc' = "ulcLoop"
    /\ UNCHANGED <<run, updateChoice, selectedPrefix, buildData, metaDisk, metaData,
                   counters, spawnCodes, gi, stream, ri, rj, mi, ulcFile, log, calls>>

\* One entry of spawnCodes.
UlcReplace ==
    /\ pc = "ulcLoop"
    /\ ui <= Len(spawnCodes)
    /\ ulcContent' = ReplaceAll(ulcContent, Quoted(spawnCodes[ui].key),
                                Quoted(spawnCodes[ui].val))
    /\ ui' = ui + 1
    /\ UNCHANGED <<pc, run, updateChoice, selectedPrefix, buildData, metaDisk,
                   metaData, counters, spawnCodes, gi, stream, ri, rj, mi, ulcFile,
                   log, calls>>

\* fs.writeFileSync(ulcFilePath, ulcContent), and the function returns.
UlcWrite ==
    /\ pc = "ulcLoop"
    /\ ui > Len(spawnCodes)
    /\ ulcFile' = [exists |-> TRUE, text |-> ulcContent]
    /\ pc' = After("updateUlcFile")
    /\ calls' = CallsAfter("updateUlcFile")
    /\ mi' = 1
    /\ UNCHANGED <<run, updateChoice, selectedPrefix, buildData, metaDisk, metaData,
                   counters, spawnCodes, gi, stream, ri, rj, ulcContent, ui, log>>

---------------------------------------------------------------------------
(* fixModkits.  A carcols item is [kitName, id, kitType]: kitName tells    *)
(* whether the item has a kitName; id is the value attribute of its id     *)
(* element, NoId when it has no id element, NoAttr when the id element has *)
(* no attributes (item.id[0]["$"] is undefined).  The items of all Kits    *)
(* elements are listed in the order the two nested forEach visit them.     *)

NoId == <<"undefined">>
NoAttr == <<"no $">>

FixIdAppend(prefix, id) == id \o prefix

\* (prefix || "") + item.id[0]["$"].value
FixId(prefix, id) == prefix \o id

\* The item is one the callback changes or throws on.
IsKitItem(item) == item.kitName /\ item.id # NoId

\* Index of the first item at which the callback throws, or Len(items) + 1.
FirstThrow(items) ==
    LET B == {i \in 1..Len(items) : IsKitItem(items[i]) /\ items[i].id = NoAttr}
    IN  IF B = {} THEN Len(items) + 1 ELSE CHOOSE i \in B : \A j \in B : i <= j

\* The document after the try block: the loop ends at the first throw.
WalkCarcols(doc, prefix) ==
    IF doc.state = "null" \/ doc.root # CarcolsRoot THEN doc
    ELSE [doc EXCEPT !.items =
            [i \in 1..Len(doc.items) |->
                IF i < FirstThrow(doc.items) /\ IsKitItem(doc.items[i])
                THEN [doc.items[i] EXCEPT !.id = FixId(prefix, doc.items[i].id)]
                ELSE doc.items[i]]]

CarcolsCaught(doc) ==
    /\ doc.state # "null"
    /\ doc.root = CarcolsRoot
    /\ FirstThrow(doc.items) <= Len(doc.items)

\* One carcols.meta document: walked inside try/catch, then written back.
FixModkitsDoc ==
    /\ pc = "modkits"
    /\ mi <= Len(metaData.carcols)
    /\ metaData.carcols[mi].contents.state # "null"
    /\ LET doc == WalkCarcols(metaData.carcols[mi].contents, selectedPrefix)
       IN  /\ metaData' = [metaData EXCEPT !.carcols[mi].contents = doc]
           /\ metaDisk' = WriteMeta(metaDisk, metaData.carcols[mi].path, doc)
    /\ log' = IF CarcolsCaught(metaData.carcols[mi].contents)
              THEN Append(log, Note("Error processing file", None, None))
              ELSE log
    /\ mi' = mi + 1
    /\ UNCHANGED <<pc, run, updateChoice, selectedPrefix, buildData, counters,
                   spawnCodes, gi, stream, ri, rj, ulcFile, ulcContent, ui, calls>>

\* A carcols.meta that did not parse: the optional chaining skips the walk,
\* and unparseXmlFile(null) throws outside the try block.
FixModkitsThrow ==
    /\ pc = "modkits"
    /\ mi <= Len(metaData.carcols)
    /\ metaData.carcols[mi].contents.state = "null"
    /\ pc' = "crashed"
    /\ log' = Append(log, Note("Error: TypeError", None, None))
    /\ UNCHANGED <<run, updateChoice, selectedPrefix, buildData, metaDisk, metaData,
                   counters, spawnCodes, gi, stream, ri, rj, mi, ulcFile, ulcContent,
                   ui, calls>>

FixModkitsReturn ==
    /\ pc = "modkits"
    /\ mi > Len(metaData.carcols)
    /\ pc' = After("fixModkits")
    /\ calls' = CallsAfter("fixModkits")
    /\ UNCHANGED <<run, updateChoice, selectedPrefix, buildData, metaDisk, metaData,
                   counters, spawnCodes, gi, stream, ri, rj, mi, ulcFile, ulcContent,
                   ui, log>>

---------------------------------------------------------------------------
(* Inputs.                                                                 *)

\* Data templates of the manifest (its `data` mapping).
Templates == {"sedan", "truck"}

TemplateData ==
    [t \in Templates |->
        IF t = "sedan" THEN [handling |-> <<"SEDAN">>, audio |-> <<"sedan_audio">>]
        ELSE [handling |-> <<"TRUCK">>, audio |-> <<"truck_audio">>]]

\* Object.entries of the `vehicles` mappings with at most n entries: the keys
\* of a mapping are distinct.
Manifests(names, prefixes, templates, n) ==
    {m \in UNION {[1..k -> [vehicle : names, code : prefixes, data : templates]] :
                    k \in 0..n} :
        \A i, j \in 1..Len(m) : i # j => m[i].vehicle # m[j].vehicle}

Loaded(m) == [ok |-> TRUE, data |-> TemplateData, vehicles |-> m]

NotLoaded == [ok |-> FALSE, data |-> TemplateData, vehicles |-> <<>>]

EmptyFolder == [exists |-> TRUE, files |-> <<>>]

NoUlc == [exists |-> FALSE, text |-> <<>>]

\* The identifier of the i-th entry of a generated manifest.
VehicleName(i) == <<"v">> \o ToStr(i)

\* The manifests whose i-th key is VehicleName(i) and whose prefixes are drawn
\* from `prefixes`.
NumberedManifests(prefixes, n) ==
    UNION {{[i \in 1..k |-> [vehicle |-> VehicleName(i), code |-> c[i], data |-> "sedan"]] :
                c \in [1..k -> prefixes]} : k \in 0..n}

\* The process has just started: nothing is loaded.
Fresh ==
    /\ pc = "prompt"
    /\ run = 1
    /\ updateChoice = "" /\ selectedPrefix = None
    /\ metaData = NoMeta /\ counters = <<>> /\ spawnCodes = <<>>
    /\ gi = 1 /\ ri = 1 /\ rj = 1 /\ mi = 1 /\ ui = 1
    /\ ulcContent = None /\ log = <<>> /\ calls = <<>>

---------------------------------------------------------------------------
(* SpecGen, SpecGenLong: autoIncrementSpawnCodes on drawn manifests.       *)

GenPrefixes == { <<"A", "#">>, <<"A">>, <<"A", "1", "#">>, <<"B", "#">> }

LongPrefixes == { <<"A", "#">>, <<"A", "1", "#">> }

\* main() is about to call autoIncrementSpawnCodes.
AtGen(m) ==
    /\ pc = "gen"
    /\ run = 1
    /\ updateChoice = SpawnOnly /\ selectedPrefix = None
    /\ buildData = Loaded(m)
    /\ metaDisk = EmptyFolder /\ metaData = NoMeta
    /\ counters = <<>> /\ spawnCodes = <<>>
    /\ gi = 1 /\ ri = 1 /\ rj = 1 /\ mi = 1 /\ ui = 1
    /\ stream = <<>> /\ ulcFile = NoUlc
    /\ ulcContent = None /\ log = <<>>
    /\ calls = <<"autoIncrementSpawnCodes">>

InitGen == \E m \in NumberedManifests(GenPrefixes, MaxVehicles) : AtGen(m)

InitGenLong == \E m \in NumberedManifests(LongPrefixes, MaxLongVehicles) : AtGen(m)

NextGen == GenStep \/ GenReturn

SpecGen == InitGen /\ [][NextGen]_vars

SpecGenLong == InitGenLong /\ [][NextGen]_vars

\* The base group key of a prefix, as the specification words it.
BaseKeyOf(code) ==
    LET n == Len(code)
    IN  IF n >= 1 /\ code[n] = "#" THEN [i \in 1..(n - 1) |-> code[i]] ELSE code

\* Rank of entry i within its group, among the entries 1..i.
RankInGroup(entries, i) ==
    Cardinality({j \in 1..i : BaseKeyOf(entries[j].code) = BaseKeyOf(entries[i].code)})

\* C2: the generated mapping gives no two original identifiers the same new
\* code.
C2_DistinctCodes ==
    \A i, j \in 1..Len(spawnCodes) :
        i # j => spawnCodes[i].val # spawnCodes[j].val

---------------------------------------------------------------------------
(* SpecRename: "Update only spawn codes", run up to MaxRuns times on the   *)
(* same stream folder.                                                     *)

RenameNames == { <<"a">>, <<"b", "1">>, <<"c", "1">> }

RenamePrefixes == { <<"b", "#">>, <<"c", "#">> }

\* The files a stream folder may hold at the start.
StreamFiles ==
    { <<"a", ".yft">>, <<"a", ".ytd">>, <<"a", "_hi", ".yft">>,
      <<"b", "1", ".yft">>, <<"b", "1", "+hi", ".ytd">>, <<"c", "1", ".yft">> }

InitRename ==
    /\ Fresh
    /\ \E m \in Manifests(RenameNames, RenamePrefixes, {"sedan"}, MaxRenameVehicles) :
          buildData = Loaded(m)
    /\ metaDisk = EmptyFolder
    /\ \E D \in SUBSET StreamFiles : stream = [f \in D |-> f]
    /\ ulcFile = NoUlc

NextRename ==
    \/ Prompt(SpawnOnly)
    \/ LoadYaml
    \/ FindMetaFiles
    \/ GenStep
    \/ GenReturn
    \/ Switch
    \/ RenameStep
    \/ RenameReturn
    \/ Complete
    \/ Rerun

SpecRename == InitRename /\ [][NextRename]_vars

\* The pair visited by the k-th iteration of the two loops.
PairOld(k) == spawnCodes[((k - 1) \div 4) + 1].key \o Patterns[((k - 1) % 4) + 1]

PairNew(k) == spawnCodes[((k - 1) \div 4) + 1].val \o Patterns[((k - 1) % 4) + 1]

Visited == 4 * (ri - 1) + (rj - 1)

C6_OneAttemptPerPair ==
    pc = "rename" =>
        /\ Len(log) = Visited
        /\ \A k \in 1..Len(log) : log[k].a = PairOld(k)

C6_Visit ==
    (pc = "rename" /\ ri <= Len(spawnCodes)) =>
        LET old == PairOld(Visited + 1)
            new == PairNew(Visited + 1)
        IN  /\ pc' = "rename"
            /\ Len(log') = Len(log) + 1
            /\ 4 * (ri' - 1) + (rj' - 1) = Visited + 1
            /\ rj' \in 1..4
            /\ IF old \in DOMAIN stream
               THEN /\ DOMAIN stream' = (DOMAIN stream \ {old}) \cup {new}
                    /\ stream'[new] = stream[old]
                    /\ \A f \in DOMAIN stream \ {old, new} : stream'[f] = stream[f]
                    /\ log'[Len(log')] = [msg |-> "Renamed", a |-> old, b |-> new]
               ELSE /\ stream' = stream
                    /\ log'[Len(log')].msg = "File not found"
                    /\ log'[Len(log')].a = old

\* C6: renameVehicleFiles visits each (identifier, suffix) pair once, in
\* order; a pair whose source file is missing at that moment yields a warning
\* and no change, never an error; a pair whose source file exists is renamed
\* to the new code with the same suffix; the loop always goes on to the next
\* pair.
C6_SkipPolicy == [](C6_OneAttemptPerPair) /\ [][C6_Visit]_vars

\* A warning for a missing file, followed by a rename of a later pair.
C6_Witness ==
    /\ pc = "rename"
    /\ \E j, k \in 1..Len(log) :
          /\ j < k
          /\ log[j].msg = "File not found"
          /\ log[k].msg = "Renamed"
          /\ log[k].b \in DOMAIN stream

\* C5: a second run of renameVehicleFiles with the same mapping, directly
\* after a first one, renames nothing and leaves the folder as it was.  (A
\* file renamed to the name it already has is not counted as a rename.)
C5_SecondRunIdle ==
    [][(run = 2 /\ pc = "rename") =>
          /\ stream' = stream
          /\ \A k \in 1..Len(log') :
                log'[k].msg = "Renamed" => log'[k].a = log'[k].b]_vars

\* C10: no rename replaces another file (the folder keeps its number of
\* files), and a file first named k+suffix ends the run named M(k)+suffix.
C10_NoFileDestroyed ==
    /\ [][Cardinality(DOMAIN stream') = Cardinality(DOMAIN stream)]_vars
    /\ [](run = 1 /\ pc = "complete" =>
            \A f \in DOMAIN stream : \A i \in 1..Len(spawnCodes) : \A e \in 1..4 :
                stream[f] = spawnCodes[i].key \o Patterns[e]
                    => f = spawnCodes[i].val \o Patterns[e])

---------------------------------------------------------------------------
(* SpecUlc: "Update only ULC" on drawn scripts and manifests.              *)

MaxUlcLen == 4          \* characters of the script
MaxUlcVehicles == 2     \* entries of the manifest

UlcNames == { <<"a">>, <<"b", "1">> }

UlcPrefixes == { <<"b", "#">>, <<"c", "#">> }

UlcAlphabet == {Quote, "a", "b", "1"}

UlcTexts == UNION {[1..n -> UlcAlphabet] : n \in 0..MaxUlcLen}

InitUlc ==
    /\ Fresh
    /\ \E m \in Manifests(UlcNames, UlcPrefixes, {"sedan"}, MaxUlcVehicles) :
          buildData = Loaded(m)
    /\ metaDisk = EmptyFolder
    /\ stream = <<>>
    /\ \/ ulcFile = NoUlc
       \/ \E t \in UlcTexts : ulcFile = [exists |-> TRUE, text |-> t]

NextUlc ==
    \/ Prompt(UlcOnly)
    \/ LoadYaml
    \/ FindMetaFiles
    \/ GenStep
    \/ GenReturn
    \/ Switch
    \/ UlcMissing
    \/ UlcRead
    \/ UlcReplace
    \/ UlcWrite
    \/ Complete

SpecUlc == InitUlc /\ [][NextUlc]_vars

\* The text in which every quoted key of the mapping M, as it occurs in the
\* input, is replaced by the quoted new code of that key, in one pass.
RECURSIVE EachLiteralReplaced(_, _, _)
EachLiteralReplaced(text, M, i) ==
    IF i > Len(text) THEN <<>>
    ELSE LET Hit == {k \in 1..Len(M) :
                        /\ i + Len(M[k].key) + 1 <= Len(text)
                        /\ SubSeq(text, i, i + Len(M[k].key) + 1) = Quoted(M[k].key)}
         IN  IF Hit = {}
             THEN <<text[i]>> \o EachLiteralReplaced(text, M, i + 1)
             ELSE LET k == CHOOSE k \in Hit : TRUE
                  IN  Quoted(M[k].val)
                          \o EachLiteralReplaced(text, M, i + Len(M[k].key) + 2)

\* C1: when the loop of updateUlcFile is over, the text is the script in
\* which each quoted original identifier has become its own quoted new code
\* and nothing else has changed.
C1_OwnCodeEverywhere ==
    (pc = "ulcLoop" /\ ui > Len(spawnCodes)) =>
        ulcContent = EachLiteralReplaced(ulcFile.text, spawnCodes, 1)

---------------------------------------------------------------------------
(* SpecMeta: "Update only meta files" on drawn documents and manifests.    *)

MaxVehicleItems == 2    \* items of the vehicles.meta document
MaxCarvarItems == 1     \* items of the carvariations.meta document
MaxMetaVehicles == 2    \* entries of the manifest

MetaKeys == { <<"a">>, <<"B", "1">> }

MetaPrefixes == { <<"c", "#">> }

\* The modelName values of the drawn items: a key, a key in another case, a
\* name whose lower-case form is no key, and a missing modelName.
ItemNames == { <<"a">>, <<"A">>, <<"B", "1">>, Absent }

VehicleItem(n) ==
    [modelName |-> n, txdName |-> n, gameName |-> n,
     handlingId |-> <<"OLD">>, audioNameHash |-> <<"old_audio">>]

CarvarItem(n) == [modelName |-> n, colors |-> <<"colors of ">> \o n]

Doc(root, items) == [state |-> "ok", root |-> root, items |-> items]

BadXmlFile == [state |-> "badxml", root |-> "", items |-> <<>>]

UnreadableFile == [state |-> "unreadable", root |-> "", items |-> <<>>]

VehicleDocs ==
    UNION {{Doc(VehiclesRoot, [i \in 1..n |-> VehicleItem(f[i])]) :
                f \in [1..n -> ItemNames]} : n \in 0..MaxVehicleItems}

CarvarDocs ==
    UNION {{Doc(CarvarRoot, [i \in 1..n |-> CarvarItem(f[i])]) :
                f \in [1..n -> ItemNames]} : n \in 0..MaxCarvarItems}

InitMeta ==
    /\ Fresh
    /\ \E m \in Manifests(MetaKeys, MetaPrefixes, Templates, MaxMetaVehicles) :
          buildData = Loaded(m)
    /\ \E v \in VehicleDocs \cup {BadXmlFile}, c \in CarvarDocs \cup {BadXmlFile} :
          metaDisk = [exists |-> TRUE,
                      files |-> << [name |-> "vehicles.meta", content |-> v],
                                   [name |-> "carvariations.meta", content |-> c] >>]
    /\ stream = <<>>
    /\ ulcFile = NoUlc

NextMeta ==
    \/ Prompt(MetaOnly)
    \/ LoadYaml
    \/ FindMetaFiles
    \/ GenStep
    \/ GenReturn
    \/ Switch
    \/ MetaVehiclesDoc
    \/ MetaVehiclesThrow
    \/ MetaVehiclesEnd
    \/ MetaCarvarDoc
    \/ MetaCarvarThrow
    \/ MetaReturn
    \/ Complete

SpecMeta == InitMeta /\ [][NextMeta]_vars

\* The lower-case form of an identifier.
LowerCased(str) ==
    LET up == <<"A", "B", "C">>
        low == <<"a", "b", "c">>
    IN  [i \in 1..Len(str) |->
            IF \E u \in 1..3 : up[u] = str[i]
            THEN low[CHOOSE u \in 1..3 : up[u] = str[i]]
            ELSE str[i]]

\* The mapping M as a function on its keys, and the template of a key.
NewCodeOf(k) == spawnCodes[CHOOSE i \in 1..Len(spawnCodes) : spawnCodes[i].key = k].val

TemplateOf(k) ==
    buildData.data[
        buildData.vehicles[CHOOSE i \in 1..Len(buildData.vehicles) :
                              buildData.vehicles[i].vehicle = k].data]

IsKey(k) == \E i \in 1..Len(spawnCodes) : spawnCodes[i].key = k

\* The document file `path` holds is rewritten by this step.
Rewritten(path) ==
    /\ metaDisk.files[path].content.state = "ok"
    /\ metaDisk'.files[path].content.state = "ok"
    /\ Len(metaDisk'.files[path].content.items) = Len(metaDisk.files[path].content.items)

C4_Vehicles ==
    (pc = "metaVehicles" /\ pc' = "metaVehicles" /\ mi' = mi + 1) =>
        LET path == metaData.vehicles[mi].path
            before == metaDisk.files[path].content.items
            after == metaDisk'.files[path].content.items
        IN  /\ Rewritten(path)
            /\ \A i \in 1..Len(before) :
                  LET k == LowerCased(before[i].modelName)
                  IN  IF IsKey(k)
                      THEN /\ after[i].modelName = NewCodeOf(k)
                           /\ after[i].txdName = NewCodeOf(k)
                           /\ after[i].gameName = NewCodeOf(k)
                           /\ after[i].handlingId = TemplateOf(k).handling
                           /\ after[i].audioNameHash = TemplateOf(k).audio
                      ELSE after[i] = before[i]

C4_Carvar ==
    (pc = "metaCarvar" /\ pc' = "metaCarvar" /\ mi' = mi + 1) =>
        LET path == metaData.carvariations[mi].path
            before == metaDisk.files[path].content.items
            after == metaDisk'.files[path].content.items
        IN  /\ Rewritten(path)
            /\ \A i \in 1..Len(before) :
                  LET k == LowerCased(before[i].modelName)
                  IN  IF IsKey(k)
                      THEN after[i] = [before[i] EXCEPT !.modelName = NewCodeOf(k)]
                      ELSE after[i] = before[i]

---------------------------------------------------------------------------
(* SpecModkits: "Update only modkits", run up to MaxRuns times on the same *)
(* carcols.meta documents.                                                 *)

MaxKitItems == 2        \* items of the first carcols.meta document

KitIds == { <<"4", "2">>, NoId, NoAttr }

KitItem(hasName, id) == [kitName |-> hasName, id |-> id, kitType |-> <<"MKT_SPORT">>]

KitItems == {KitItem(h, id) : h \in BOOLEAN, id \in KitIds}

CarcolsDocs ==
    UNION {{Doc(CarcolsRoot, f) : f \in [1..n -> KitItems]} : n \in 0..MaxKitItems}

\* A second carcols.meta, in a sub-folder.
OtherCarcols == Doc(CarcolsRoot, <<KitItem(TRUE, <<"7">>)>>)

ModkitPrefixes == { <<"3">>, <<"1">> }

InitModkits ==
    /\ Fresh
    /\ \E m \in Manifests({<<"a">>}, {<<"c", "#">>}, {"sedan"}, 1) : buildData = Loaded(m)
    /\ \E d \in CarcolsDocs \cup {BadXmlFile, Doc("Other", <<>>)} :
          \E more \in { <<>>, <<[name |-> "carcols.meta", content |-> OtherCarcols]>> } :
              metaDisk = [exists |-> TRUE,
                          files |-> <<[name |-> "carcols.meta", content |-> d]>> \o more]
    /\ stream = <<>>
    /\ ulcFile = NoUlc

NextModkits ==
    \/ Prompt(ModkitsOnly)
    \/ LoadYaml
    \/ FindMetaFiles
    \/ GenStep
    \/ GenReturn
    \/ \E p \in ModkitPrefixes : SwitchWithPrefix(p)
    \/ FixModkitsDoc
    \/ FixModkitsThrow
    \/ FixModkitsReturn
    \/ Complete
    \/ Rerun

SpecModkits == InitModkits /\ [][NextModkits]_vars

\* The item has a kitName and an id element with a value attribute.
HasKitId(item) == item.kitName /\ item.id \notin {NoId, NoAttr}

\* The item has a kitName and an id element without attributes.
Malformed(item) == item.kitName /\ item.id = NoAttr

\* fixModkits has walked and written back the document of this step.
KitDocDone == pc = "modkits" /\ pc' = "modkits" /\ mi' = mi + 1

---------------------------------------------------------------------------
(* Spec: one invocation of main(), every choice of both prompts, on        *)
(* sample files.                                                           *)

MissingFile == [state |-> "missing", root |-> "", items |-> <<>>]

MainManifests == { <<>>, <<[vehicle |-> <<"a">>, code |-> <<"c", "#">>, data |-> "sedan"]>> }

VehiclesSamples ==
    { MissingFile, BadXmlFile,
      Doc(VehiclesRoot, <<VehicleItem(<<"a">>)>>),
      Doc(VehiclesRoot, <<VehicleItem(Absent)>>) }

CarvarSamples == { MissingFile, BadXmlFile, Doc(CarvarRoot, <<CarvarItem(<<"a">>)>>) }

CarcolsSamples ==
    { MissingFile, BadXmlFile, UnreadableFile,
      Doc(CarcolsRoot, <<KitItem(TRUE, <<"4", "2">>)>>) }

\* The meta folder holding the files that are not missing.
Folder(v, c, k) ==
    LET File(name, content) ==
            IF content.state = "missing" THEN <<>>
            ELSE <<[name |-> name, content |-> content]>>
    IN  [exists |-> TRUE,
         files |-> File("vehicles.meta", v) \o File("carvariations.meta", c)
                       \o File("carcols.meta", k)]

NoFolder == [exists |-> FALSE, files |-> <<>>]

Init ==
    /\ Fresh
    /\ buildData \in {NotLoaded} \cup {Loaded(m) : m \in MainManifests}
    /\ metaDisk \in {NoFolder} \cup
          {Folder(v, c, k) : v \in VehiclesSamples, c \in CarvarSamples, k \in CarcolsSamples}
    /\ stream \in { <<>>, [f \in { <<"a", ".yft">> } |-> f] }
    /\ ulcFile \in { NoUlc, [exists |-> TRUE, text |-> Quoted(<<"a">>)] }

Next ==
    \/ \E c \in Choices : Prompt(c)
    \/ LoadYaml
    \/ LoadYamlFail
    \/ FindMetaFiles
    \/ FindMetaFilesThrow
    \/ GenStep
    \/ GenReturn
    \/ \E p \in PrefixChoices : SwitchWithPrefix(p)
    \/ Switch
    \/ RenameStep
    \/ RenameReturn
    \/ MetaVehiclesDoc
    \/ MetaVehiclesThrow
    \/ MetaVehiclesEnd
    \/ MetaCarvarDoc
    \/ MetaCarvarThrow
    \/ MetaReturn
    \/ UlcMissing
    \/ UlcRead
    \/ UlcReplace
    \/ UlcWrite
    \/ FixModkitsDoc
    \/ FixModkitsThrow
    \/ FixModkitsReturn
    \/ Complete

Spec == Init /\ [][Next]_vars

\* The fixed order of the four steps, and the steps each mode selects.
StepOrder == <<"renameVehicleFiles", "updateMetaFiles", "updateUlcFile", "fixModkits">>

StepsOfMode(choice) ==
    IF choice = "Update everything" THEN {1, 2, 3, 4}
    ELSE IF choice = "Update only spawn codes" THEN {1}
    ELSE IF choice = "Update only meta files" THEN {2}
    ELSE IF choice = "Update only ULC" THEN {3}
    ELSE IF choice = "Update only modkits" THEN {4}
    ELSE {}

RECURSIVE InOrder(_, _)
InOrder(S, i) ==
    IF i > Len(StepOrder) THEN <<>>
    ELSE (IF i \in S THEN <<StepOrder[i]>> ELSE <<>>) \o InOrder(S, i + 1)

\* What a complete run invokes: the generator once, then the steps of the mode.
Expected(choice) == <<"autoIncrementSpawnCodes">> \o InOrder(StepsOfMode(choice), 1)

IsPrefix(a, b) == Len(a) <= Len(b) /\ \A i \in 1..Len(a) : a[i] = b[i]

InStep == pc \in {"rename", "metaVehicles", "metaCarvar", "ulc", "ulcLoop", "modkits"}

Running(step) ==
    \/ step = "renameVehicleFiles" /\ pc = "rename"
    \/ step = "updateMetaFiles" /\ pc \in {"metaVehicles", "metaCarvar"}
    \/ step = "updateUlcFile" /\ pc \in {"ulc", "ulcLoop"}
    \/ step = "fixModkits" /\ pc = "modkits"

Skips == {"File not found", "ULC file not found", "Error processing file"}

C8_Order ==
    /\ updateChoice = "" => calls = <<>>
    /\ updateChoice # "" => IsPrefix(calls, Expected(updateChoice))
    /\ pc \in {"switch"} => calls = <<"autoIncrementSpawnCodes">>
    /\ InStep => Len(calls) >= 2 /\ Running(calls[Len(calls)])
    /\ pc \in {"complete", "done"} => calls = Expected(updateChoice)
    /\ pc = "crashed" => /\ log # <<>>
                         /\ log[Len(log)].msg \in {"Error: TypeError", "Error: findMetaFiles"}
    /\ pc \notin {"done", "crashed", "exit1"} => ENABLED Next

C8_Step ==
    /\ (InStep \/ pc \in {"switch", "complete"}) => spawnCodes' = spawnCodes
    /\ (Len(log') > Len(log) /\ log'[Len(log')].msg \in Skips) =>
            (pc' = "complete" \/ InStep')

\* C8: the mapping is computed once, before any step and never again; the
\* steps invoked are those of the selected mode, in the order rename files,
\* rewrite metadata, rewrite script, fix modification kits; a run that
\* completes has invoked all of them; a step that reports a skip is followed
\* by the rest of the run, which only an uncaught exception cuts short.
C8_Orchestration == [](C8_Order) /\ [][C8_Step]_vars

\* A full run that completes although the renamer, the script rewriter and
\* the modkit fixup each reported a skip.
C8_Witness ==
    /\ pc = "done"
    /\ updateChoice = Everything
    /\ calls = <<"autoIncrementSpawnCodes", "renameVehicleFiles", "updateMetaFiles",
                 "updateUlcFile", "fixModkits">>
    /\ \E i, j \in 1..Len(log) :
          /\ i < j
          /\ log[i].msg = "File not found"
          /\ log[j].msg = "ULC file not found"

\* The vehicles.meta and carvariations.meta files present are unparseable or
\* sound, and nothing else can fail: the folder exists and every carcols.meta
\* parses.
OnlyMetaParseFailures ==
    /\ metaDisk.exists
    /\ \A i \in 1..Len(metaDisk.files) :
          LET f == metaDisk.files[i]
          IN  /\ f.name = "vehicles.meta" =>
                    \/ f.content.state = "badxml"
                    \/ /\ f.content.state = "ok"
                       /\ f.content.root = VehiclesRoot
                       /\ \A n \in 1..Len(f.content.items) :
                             f.content.items[n].modelName # Absent
              /\ f.name = "carvariations.meta" =>
                    \/ f.content.state = "badxml"
                    \/ /\ f.content.state = "ok"
                       /\ f.content.root = CarvarRoot
                       /\ \A n \in 1..Len(f.content.items) :
                             f.content.items[n].modelName # Absent
              /\ f.name = "carcols.meta" => f.content.state = "ok"

\* C9: in a run whose mode includes the metadata rewrite, a vehicles.meta or
\* carvariations.meta that is missing or cannot be parsed is skipped: the run
\* does not fail because of it, and its later steps run to completion.
C9_MetaFailureSkipped ==
    (updateChoice \in {Everything, MetaOnly} /\ OnlyMetaParseFailures) => pc # "crashed"

=============================================================================
